---- MODULE Spec2Model ----
(***************************************************************************)
(* Segregated-fit allocator of src/mm.c.                                   *)
(*                                                                         *)
(* The heap is an array of 4-byte words.  Every pointer of the program is  *)
(* represented by its distance in words from heap_start, so heap_start is  *)
(* 0, the sentinel heap_start - 1 that marks an empty bucket is -1, and    *)
(* NULL is a value that is no word of the arena.  The byte address of word *)
(* a is HeapStartByte + WSIZE * a, where HeapStartByte is what mm_init     *)
(* computes.                                                               *)
(*                                                                         *)
(* Every function of the program is an operator from a heap record         *)
(*   [mem, seg, last, epi, brk, cap, crashed, oob, wr]                     *)
(* to a heap record (or to a record holding one), composed in the order    *)
(* of the statements of the function.                                      *)
(***************************************************************************)
EXTENDS Integers, FiniteSets, Sequences, TLC

(* ---- program constants ---- *)
WSIZE == 4
ALIGNMENT == 16
N_BUCKETS == 10
FREE == 0
USED == 1
PREVFREE == 2
NULL == -1000

(* ---- bounds of the model ---- *)
\* Words the arena can hold after the epilogue word mm_init creates:
\* MaxWords when the client makes every call in any order, BigWords when it
\* only allocates and then only frees.
MaxWords == 24
BigWords == 28
\* Residue mod 16 of the address mem_sbrk hands out first (memlib's arena).
ArenaResidue == 0

\* Byte counts passed to malloc (0 is the "no allocation" request): blocks
\* of 8, 16 and 24 words.
ReqSizes == {0, 28, 60, 92}
\* Byte counts of the client that allocates, then frees: blocks of 4, 8 and
\* 24 words.
PhaseSizes == {12, 28, 92}
\* Byte counts passed to realloc.
ReallocSizes == {0, 28}
\* Bits of size_t in the model: sizes are computed modulo SizeMod.
SizeBits == 16
SizeMod == 2 ^ SizeBits
\* calloc arguments; their products are whole words, and the largest nmemb
\* makes the product overflow size_t.
CallocN == {0, 5, SizeMod \div 4 + 5}
CallocSize == {4}

Addr == (-1) .. BigWords
\* What an out-of-bounds read of segregated_list[N_BUCKETS] can find in the
\* never-written padding that follows the table: zero bytes, or anything else.
OobValues == {"NULL", "WILD"}

VARIABLES mem, seg, last, epi, brk, cap, crashed, oob, live, ret, clobber, phase

vars == <<mem, seg, last, epi, brk, cap, crashed, oob, live, ret, clobber, phase>>

(* ---- bit operations on a 32-bit two's complement word ---- *)
Low2(v) == v % 4

OrLow(a, b) == ((IF a % 2 = 1 \/ b % 2 = 1 THEN 1 ELSE 0)
                + (IF (a \div 2) % 2 = 1 \/ (b \div 2) % 2 = 1 THEN 2 ELSE 0))

PACK(size, alloc) == (size - Low2(size)) + OrLow(Low2(size), alloc)

\* The call aborts: a failed assert, or an access outside the arena.
Crash(s) == [s EXCEPT !.crashed = TRUE]

Rd(s, p) == IF p \in Addr THEN s.mem[p] ELSE 0

PUT(s, p, val) ==
    IF p \notin Addr THEN Crash(s)
    ELSE [s EXCEPT !.mem[p] = val, !.wr = @ \cup {p}]

\* (size + ALIGNMENT - 1) & -ALIGNMENT, in size_t.
round_up(size) ==
    ((size + ALIGNMENT - 1) - ((size + ALIGNMENT - 1) % ALIGNMENT)) % SizeMod

(* ---- boundary tags ---- *)
bt_size(s, bt) == Rd(s, bt) - Low2(Rd(s, bt))

bt_used(s, bt) == Rd(s, bt) % 2

bt_get_prevfree(s, bt) == IF (Rd(s, bt) \div 2) % 2 = 1 THEN PREVFREE ELSE 0

bt_clr_prevfree(s, bt) ==
    IF bt # NULL THEN PUT(s, bt, Rd(s, bt) - bt_get_prevfree(s, bt)) ELSE s

bt_set_prevfree(s, bt) ==
    PUT(s, bt, Rd(s, bt) + (PREVFREE - bt_get_prevfree(s, bt)))

bt_payload(bt) == bt + 1

bt_footer(s, bt) == bt + bt_size(s, bt) - 1

bt_next(s, bt) ==
    IF bt_footer(s, bt) + 1 = s.epi THEN NULL ELSE bt_footer(s, bt) + 1

bt_prev(s, bt) ==
    IF bt_get_prevfree(s, bt) # 0 THEN bt - bt_size(s, bt - 1) ELSE NULL

\* bt_make, last statement: PUT(bt_footer(bt), PACK(words, flags)).
bt_make_footer(s, bt, words, flags) ==
    PUT(s, bt_footer(s, bt), PACK(words, flags))

\* bt_make after the header is written; next is bt_next(bt).  A used block
\* with a next block returns before the footer is written.
bt_make_next(s, bt, words, flags, next) ==
    IF next # NULL
    THEN IF bt_used(s, bt) # 0
         THEN bt_clr_prevfree(s, next)
         ELSE bt_make_footer(bt_set_prevfree(s, next), bt, words, flags)
    ELSE bt_make_footer(s, bt, words, flags)

bt_make_header(s, bt, words, flags) ==
    bt_make_next(s, bt, words, flags, bt_next(s, bt))

bt_make(s, bt, words, flags) ==
    bt_make_header(PUT(s, bt, PACK(words, flags)), bt, words, flags)

(* ---- free list API ---- *)
RECURSIVE find_bucket_loop(_, _, _)
find_bucket_loop(size, boundary, index) ==
    IF size <= boundary THEN index
    ELSE IF index + 1 < N_BUCKETS - 1
         THEN find_bucket_loop(size, 2 * boundary, index + 1)
         ELSE N_BUCKETS - 1

\* A negative word count converts to a size_t above every boundary.
find_bucket(words) ==
    IF words < 0 THEN N_BUCKETS - 1 ELSE find_bucket_loop(words * WSIZE, 16, 0)

\* The assert of find_bucket can only fail in bucket 0 (size <= 8 bytes).
find_bucket_assert(words) == ~(words >= 0 /\ words * WSIZE <= 8)

\* (word_t)(p - heap_start): a pointer is its distance from heap_start.  A
\* NULL block, or NULL - heap_start as a link, is no access the arena holds.
set_free_list_prev(s, bt, free_prev) ==
    IF bt = NULL \/ free_prev = NULL THEN Crash(s) ELSE PUT(s, bt + 2, free_prev)

set_free_list_next(s, bt, free_next) ==
    IF bt = NULL \/ free_next = NULL THEN Crash(s) ELSE PUT(s, bt + 1, free_next)

get_free_list_prev(s, bt) == IF Rd(s, bt + 2) < 0 THEN NULL ELSE Rd(s, bt + 2)

get_free_list_next(s, bt) == IF Rd(s, bt + 1) < 0 THEN NULL ELSE Rd(s, bt + 1)

\* A free_list_append that leaves the old head's prev link as it was.
free_list_append_unlinked(s, bt) == s

\* free_list_append, last statement: the old head's prev becomes bt.
free_list_append_link(s, bt) ==
    IF get_free_list_next(s, bt) # NULL
    THEN set_free_list_prev(s, get_free_list_next(s, bt), bt)
    ELSE s

\* free_list_append with index = find_bucket(bt_size(bt)): bt's prev is
\* "none", its next is the old head, and bt is the new head.
free_list_append_at(s, bt, index) ==
    free_list_append_link(
        [set_free_list_next(set_free_list_prev(s, bt, -1), bt, s.seg[index])
            EXCEPT !.seg[index] = bt],
        bt)

free_list_append(s, bt) ==
    IF ~find_bucket_assert(bt_size(s, bt)) THEN Crash(s)
    ELSE free_list_append_at(s, bt, find_bucket(bt_size(s, bt)))

\* free_list_delete, "middle of the list", second statement.
free_list_delete_mid(s, bt) ==
    set_free_list_prev(s, get_free_list_next(s, bt), get_free_list_prev(s, bt))

free_list_delete_at(s, bt, index) ==
    IF s.seg[index] = bt /\ get_free_list_next(s, bt) = NULL
    THEN [s EXCEPT !.seg[index] = -1]
    ELSE IF s.seg[index] = bt
    THEN set_free_list_prev([s EXCEPT !.seg[index] = get_free_list_next(s, bt)],
                            get_free_list_next(s, bt), -1)
    ELSE IF get_free_list_next(s, bt) # NULL
    THEN free_list_delete_mid(
             set_free_list_next(s, get_free_list_prev(s, bt),
                                get_free_list_next(s, bt)),
             bt)
    ELSE set_free_list_next(s, get_free_list_prev(s, bt), -1)

free_list_delete(s, bt) ==
    IF ~find_bucket_assert(bt_size(s, bt)) THEN Crash(s)
    ELSE free_list_delete_at(s, bt, find_bucket(bt_size(s, bt)))

(* ---- coalesce ---- *)
\* last = (is_change) ? bt : last; return bt
coalesce_last(s, bt, is_change) ==
    [hp |-> [s EXCEPT !.last = IF is_change THEN bt ELSE @], bt |-> bt]

\* bt_make(bt, words, FREE); free_list_append(bt)
coalesce_make(s, bt, words, is_change) ==
    coalesce_last(free_list_append(bt_make(s, bt, words, FREE), bt),
                  bt, is_change)

\* if (!prev_used) { words += bt_size(prev); free_list_delete(prev); bt = prev; }
coalesce_prev(s, bt, prev, prev_used, words, is_change) ==
    IF prev_used = 0
    THEN coalesce_make(free_list_delete(s, prev), prev,
                       words + bt_size(s, prev), is_change)
    ELSE coalesce_make(s, bt, words, is_change)

\* is_change, and: if (!next_used) { words += bt_size(next); free_list_delete(next); }
coalesce_next(s, bt, prev, next, prev_used, next_used) ==
    coalesce_prev(IF next_used = 0 THEN free_list_delete(s, next) ELSE s,
                  bt, prev, prev_used,
                  IF next_used = 0 THEN bt_size(s, bt) + bt_size(s, next)
                                   ELSE bt_size(s, bt),
                  (bt = s.last) \/ (next = s.last /\ next_used = 0))

coalesce_used(s, bt, prev, next) ==
    coalesce_next(s, bt, prev, next,
                  IF prev # NULL THEN bt_used(s, prev) ELSE 1,
                  IF next # NULL THEN bt_used(s, next) ELSE 1)

\* Returns the heap and the block it returns.
coalesce(s, bt) == coalesce_used(s, bt, bt_prev(s, bt), bt_next(s, bt))

(* ---- mm_init ---- *)
\* sizeof(heap_start): the table holds N_BUCKETS pointers.
PTRSIZE == 8

\* remainder = (uintptr_t)mem_sbrk(0) % 16, after the table was reserved.
mm_init_remainder == (ArenaResidue + N_BUCKETS * PTRSIZE) % 16

\* size = (remainder > 12) ? 16 - remainder - 12 : 12 - remainder, in size_t
mm_init_size(remainder) ==
    IF remainder > 12 THEN (16 - remainder - 12) % SizeMod ELSE 12 - remainder

\* Residue mod 16 of the byte address of heap_start.
HeapStartResidue == (mm_init_remainder + mm_init_size(mm_init_remainder)) % 16

\* Residue mod 16 of the byte address of the word at distance p from heap_start.
ByteResidue(p) == (HeapStartResidue + WSIZE * p) % 16

(* ---- extend_heap ---- *)
\* mem_sbrk(size): fails for a size that wrapped below zero or that the arena
\* cannot hold; otherwise the break moves up by size bytes.
mem_sbrk_fails(s, size) ==
    size < 0 \/ (s.brk - 1) + (size \div WSIZE) > s.cap

\* assert((uintptr_t)heap_epilogue % 16 == 12); return coalesce(bt)
extend_heap_coalesce(s, bt) ==
    IF ByteResidue(s.epi) # 12 THEN [hp |-> Crash(s), bt |-> NULL]
    ELSE coalesce(s, bt)

\* PUT(heap_epilogue = bt_footer(bt) + 1, PACK(0, USED))
extend_heap_epilogue(s, bt) ==
    extend_heap_coalesce(
        PUT([s EXCEPT !.epi = bt_footer(s, bt) + 1],
            bt_footer(s, bt) + 1, PACK(0, USED)),
        bt)

\* bt = heap_epilogue; flags; bt_make(bt, size / WSIZE, flags); last = bt
extend_heap_block(s, size) ==
    extend_heap_epilogue(
        [bt_make(s, s.epi, size \div WSIZE,
                 IF s.last # NULL /\ bt_used(s, s.last) = 0
                 THEN PREVFREE ELSE FREE)
            EXCEPT !.last = s.epi],
        s.epi)

\* Returns the heap and the block, NULL when mem_sbrk failed.
extend_heap(s, size) ==
    IF mem_sbrk_fails(s, size) THEN [hp |-> s, bt |-> NULL]
    ELSE extend_heap_block([s EXCEPT !.brk = @ + (size \div WSIZE)], size)

(* ---- place ---- *)
\* A place that makes the new free block and leaves last as it was.
place_remaining_stale(s, bt, remaining_block, words) ==
    free_list_append(bt_make(s, remaining_block, words, FREE), remaining_block)

\* The new free block made from the leftovers, and the update of last.
place_remaining(s, bt, remaining_block, words) ==
    [free_list_append(bt_make(s, remaining_block, words, FREE), remaining_block)
        EXCEPT !.last = IF @ = bt THEN remaining_block ELSE @]

\* A place that makes the leftover block four words shorter than the
\* leftovers.
place_next_short(s, bt, words) ==
    place_remaining(s, bt, bt_next(s, bt), words - 4)

\* word_t *remaining_block = bt_next(bt)
place_next(s, bt, words) == place_remaining(s, bt, bt_next(s, bt), words)

\* bt_make(bt, words_needed, USED | bt_get_prevfree(bt))
place_split(s, bt, words_needed, free_block_words) ==
    place_next(bt_make(s, bt, words_needed, OrLow(USED, bt_get_prevfree(s, bt))),
               bt, free_block_words - words_needed)

\* A place that writes the requested size in the header of a block it does
\* not split.
place_block_short(s, bt, words_needed, free_block_words) ==
    IF free_block_words - words_needed >= ALIGNMENT
    THEN place_split(s, bt, words_needed, free_block_words)
    ELSE bt_make(s, bt, words_needed, USED)

\* place after free_list_delete(bt); free_block_words is the size read before.
place_block(s, bt, words_needed, free_block_words) ==
    IF free_block_words - words_needed >= ALIGNMENT
    THEN place_split(s, bt, words_needed, free_block_words)
    ELSE bt_make(s, bt, free_block_words, USED)

\* A place that leaves the block on its free list.
place_listed(s, bt, words_needed) ==
    place_block(s, bt, words_needed, bt_size(s, bt))

place(s, bt, words_needed) ==
    place_block(free_list_delete(s, bt), bt, words_needed, bt_size(s, bt))

(* ---- find_fit ---- *)
\* while ((segregated_list[index] - heap_start == -1) && (index < N_BUCKETS)):
\* the table entry is read before the index is compared with N_BUCKETS, so the
\* loop stops at the first non-empty bucket or after reading entry N_BUCKETS.
RECURSIVE skip_empty(_, _)
skip_empty(s, index) ==
    IF index < N_BUCKETS /\ s.seg[index] = -1
    THEN skip_empty(s, index + 1) ELSE index

\* A list walk that passes over the blocks of exactly the size asked for.
RECURSIVE find_fit_list_larger(_, _, _, _)
find_fit_list_larger(s, bt, words, fuel) ==
    IF bt = NULL THEN [bt |-> NULL, bad |-> FALSE]
    ELSE IF bt \notin Addr \/ fuel = 0 THEN [bt |-> NULL, bad |-> TRUE]
    ELSE IF bt_size(s, bt) > words THEN [bt |-> bt, bad |-> FALSE]
    ELSE find_fit_list_larger(s, get_free_list_next(s, bt), words, fuel - 1)

\* The inner while over one bucket list.  `bad` is a walk that leaves the
\* arena or never ends (fuel is the number of words of the arena).
RECURSIVE find_fit_list(_, _, _, _)
find_fit_list(s, bt, words, fuel) ==
    IF bt = NULL THEN [bt |-> NULL, bad |-> FALSE]
    ELSE IF bt \notin Addr \/ fuel = 0 THEN [bt |-> NULL, bad |-> TRUE]
    ELSE IF bt_size(s, bt) >= words THEN [bt |-> bt, bad |-> FALSE]
    ELSE find_fit_list(s, get_free_list_next(s, bt), words, fuel - 1)

RECURSIVE find_fit_from(_, _, _)
\* After the list of bucket index gave r: index++; while (index < N_BUCKETS).
find_fit_more(s, words, index, r) ==
    IF r.bad \/ r.bt # NULL \/ index + 1 >= N_BUCKETS
    THEN [bt |-> r.bt, bad |-> r.bad, top |-> index]
    ELSE find_fit_from(s, words, index + 1)

\* bt = segregated_list[index], with index where the skipping loop stopped:
\* entry N_BUCKETS is whatever lies behind the table.  `top` is the highest
\* index of segregated_list that was read.
find_fit_at(s, words, index) ==
    IF index >= N_BUCKETS
    THEN [bt |-> NULL, bad |-> (s.oob # "NULL"), top |-> index]
    ELSE find_fit_more(s, words, index,
                       find_fit_list(s, s.seg[index], words, BigWords))

find_fit_from(s, words, index0) == find_fit_at(s, words, skip_empty(s, index0))

find_fit(s, words) ==
    IF ~find_bucket_assert(words) THEN [bt |-> NULL, bad |-> TRUE, top |-> -1]
    ELSE find_fit_from(s, words, find_bucket(words))

(* ---- public operations ---- *)
\* A malloc that hands out the header of the block instead of its payload.
malloc_result_header(bt) == bt

\* return (void *)(bt + 1)
malloc_result(bt) == bt + 1

\* malloc after extend_heap returned e.
malloc_extended(e, words) ==
    IF e.bt = NULL THEN [hp |-> e.hp, ptr |-> NULL]
    ELSE [hp |-> place(e.hp, e.bt, words), ptr |-> malloc_result(e.bt)]

\* size_t needed = size; if (last != NULL && !bt_used(last)) needed = ...
malloc_needed(s, size) ==
    IF s.last # NULL /\ bt_used(s, s.last) = 0
    THEN size - bt_size(s, s.last) * WSIZE
    ELSE size

\* malloc after find_fit returned f; size is the rounded size in bytes.
malloc_fit(s, size, words, f) ==
    IF f.bad THEN [hp |-> Crash(s), ptr |-> NULL]
    ELSE IF f.bt # NULL
    THEN [hp |-> place(s, f.bt, words), ptr |-> malloc_result(f.bt)]
    ELSE malloc_extended(extend_heap(s, malloc_needed(s, size)), words)

\* malloc with size = round_up(WSIZE + size).
malloc_rounded(s, size) ==
    malloc_fit(s, size, size \div WSIZE, find_fit(s, size \div WSIZE))

\* Returns the heap and the payload pointer.
malloc(s, size) ==
    IF size = 0 THEN [hp |-> s, ptr |-> NULL]
    ELSE malloc_rounded(s, round_up(WSIZE + size))

\* free after bt_make(bt, bt_size(bt), flags).
free_coalesce(s, bt) ==
    IF bt_get_prevfree(s, bt) # 0
       \/ (bt_next(s, bt) # NULL /\ bt_used(s, bt_next(s, bt)) # 0)
    THEN coalesce(s, bt).hp
    ELSE free_list_append(s, bt)

free(s, ptr) ==
    IF ptr = NULL THEN s
    ELSE free_coalesce(bt_make(s, ptr - 1, bt_size(s, ptr - 1),
                               OrLow(FREE, bt_get_prevfree(s, ptr - 1))),
                       ptr - 1)

\* memcpy(dst, src, 4 * n) on whole words.
memcpy(s, dst, src, n) ==
    IF n <= 0 THEN s
    ELSE IF ~(dst .. (dst + n - 1) \subseteq Addr /\ src .. (src + n - 1) \subseteq Addr)
    THEN Crash(s)
    ELSE [s EXCEPT !.mem = [a \in Addr |-> IF a \in dst .. (dst + n - 1)
                                           THEN s.mem[src + (a - dst)]
                                           ELSE s.mem[a]],
                   !.wr = @ \cup (dst .. (dst + n - 1))]

\* memset(dst, 0, bytes); a partly covered last word is cleared whole.
memset0(s, dst, bytes) ==
    IF bytes <= 0 THEN s
    ELSE IF ~(dst .. (dst + ((bytes + WSIZE - 1) \div WSIZE) - 1) \subseteq Addr)
    THEN Crash(s)
    ELSE [s EXCEPT !.mem = [a \in Addr |->
                               IF a \in dst .. (dst + ((bytes + WSIZE - 1) \div WSIZE) - 1)
                               THEN 0 ELSE s.mem[a]],
                   !.wr = @ \cup (dst .. (dst + ((bytes + WSIZE - 1) \div WSIZE) - 1))]

\* if (free_size > old_size) memcpy(.., old_size - WSIZE) else memcpy(.., free_size - WSIZE)
realloc_memcpy(s, new_ptr, old_ptr, free_size, old_size) ==
    IF free_size > old_size
    THEN memcpy(s, new_ptr, old_ptr, (old_size - WSIZE) \div WSIZE)
    ELSE memcpy(s, new_ptr, old_ptr, (free_size - WSIZE) \div WSIZE)

\* A realloc that frees the old block before it copies the old data.
realloc_copy_late(m, old_ptr) ==
    IF m.ptr = NULL THEN [hp |-> m.hp, ptr |-> NULL]
    ELSE [hp |-> realloc_memcpy(free(m.hp, old_ptr), m.ptr, old_ptr,
                                bt_size(m.hp, m.ptr - 1) * WSIZE,
                                bt_size(m.hp, old_ptr - 1) * WSIZE),
          ptr |-> m.ptr]

\* A realloc that frees the old block also when malloc fails.
realloc_copy_freeing(m, old_ptr) ==
    IF m.ptr = NULL THEN [hp |-> free(m.hp, old_ptr), ptr |-> NULL]
    ELSE [hp |-> free(realloc_memcpy(m.hp, m.ptr, old_ptr,
                                     bt_size(m.hp, m.ptr - 1) * WSIZE,
                                     bt_size(m.hp, old_ptr - 1) * WSIZE),
                      old_ptr),
          ptr |-> m.ptr]

\* realloc after malloc(size) returned m.
realloc_copy(m, old_ptr) ==
    IF m.ptr = NULL THEN [hp |-> m.hp, ptr |-> NULL]
    ELSE [hp |-> free(realloc_memcpy(m.hp, m.ptr, old_ptr,
                                     bt_size(m.hp, m.ptr - 1) * WSIZE,
                                     bt_size(m.hp, old_ptr - 1) * WSIZE),
                      old_ptr),
          ptr |-> m.ptr]

\* A realloc that returns none for size 0 without freeing the old block.
realloc_keeping(s, old_ptr, size) ==
    IF size = 0 THEN [hp |-> s, ptr |-> NULL]
    ELSE IF old_ptr = NULL THEN malloc(s, size)
    ELSE realloc_copy(malloc(s, size), old_ptr)

realloc(s, old_ptr, size) ==
    IF size = 0 THEN [hp |-> free(s, old_ptr), ptr |-> NULL]
    ELSE IF old_ptr = NULL THEN malloc(s, size)
    ELSE realloc_copy(malloc(s, size), old_ptr)

\* calloc after malloc(bytes) returned m.
calloc_zero(m, bytes) ==
    IF m.ptr # NULL THEN [hp |-> memset0(m.hp, m.ptr, bytes), ptr |-> m.ptr]
    ELSE m

\* size_t bytes = nmemb * size
calloc_bytes(nmemb, size) == (nmemb * size) % SizeMod

calloc(s, nmemb, size) ==
    calloc_zero(malloc(s, calloc_bytes(nmemb, size)), calloc_bytes(nmemb, size))

(* ---- the state after mm_init ---- *)
\* The state mm_init leaves: the epilogue word alone, every bucket empty.
InitHeap ==
    /\ mem = [a \in Addr |-> IF a = 0 THEN USED ELSE 0]
    /\ seg = [i \in 0 .. (N_BUCKETS - 1) |-> -1]
    /\ last = NULL
    /\ epi = 0
    /\ brk = 1
    /\ crashed = FALSE
    /\ oob \in OobValues
    /\ live = {}
    /\ ret = NULL
    /\ clobber = FALSE

Init == InitHeap /\ cap = MaxWords /\ phase = "any"

(* ---- the calls of the client ---- *)
\* The allocator's state as a heap record, with no word written yet.
H == [mem |-> mem, seg |-> seg, last |-> last, epi |-> epi, brk |-> brk,
      cap |-> cap, crashed |-> crashed, oob |-> oob, wr |-> {}]

\* Payload words of a live block e = [bt, w].
Payload(e) == (e.bt + 1) .. (e.bt + e.w - 1)

\* Some word of wr is a payload word of a block of keep.
Clobber(wr, keep) == \E e \in keep : wr \cap Payload(e) # {}

LiveEntry(s, ptr) == [bt |-> ptr - 1, w |-> bt_size(s, ptr - 1)]

LivePtrs == {e.bt + 1 : e \in live}

\* Leave the call: the heap record becomes the state; an aborted call stops
\* the program where it was.
Exit(s, p, newlive, clob) ==
    IF s.crashed
    THEN /\ crashed' = TRUE
         /\ UNCHANGED <<mem, seg, last, epi, brk, cap, oob, live, ret, clobber>>
    ELSE /\ mem' = s.mem
         /\ seg' = s.seg
         /\ last' = s.last
         /\ epi' = s.epi
         /\ brk' = s.brk
         /\ ret' = p
         /\ live' = newlive
         /\ clobber' = clob
         /\ UNCHANGED <<crashed, oob, cap>>

\* r is what malloc, realloc or calloc returned; the blocks of keep stay live.
AllocExit(r, keep, clob) ==
    Exit(r.hp, r.ptr,
         IF r.ptr # NULL THEN keep \cup {LiveEntry(r.hp, r.ptr)} ELSE keep,
         clob \/ Clobber(r.hp.wr, keep))

FreeExit(s, keep) == Exit(s, NULL, keep, Clobber(s.wr, keep))

Malloc(n) == ~crashed /\ AllocExit(malloc(H, n), live, FALSE)

Free(p) == ~crashed /\ FreeExit(free(H, p), {e \in live : e.bt + 1 # p})

\* The old block stays live when realloc fails, and is live while realloc
\* allocates the new one.
ReallocExit(r, p, n, clob) ==
    AllocExit(r,
              IF n = 0 \/ r.ptr # NULL THEN {e \in live : e.bt + 1 # p} ELSE live,
              clob)

Realloc(p, n) ==
    /\ ~crashed
    /\ ReallocExit(realloc(H, p, n), p, n,
                   n # 0 /\ Clobber(malloc(H, n).hp.wr, live))

Calloc(k, n) == ~crashed /\ AllocExit(calloc(H, k, n), live, FALSE)

Next ==
    \/ \E n \in ReqSizes : Malloc(n) /\ UNCHANGED phase
    \/ \E p \in LivePtrs \cup {NULL} : Free(p) /\ UNCHANGED phase
    \/ \E p \in LivePtrs \cup {NULL}, n \in ReallocSizes :
          Realloc(p, n) /\ UNCHANGED phase
    \/ \E k \in CallocN, n \in CallocSize : Calloc(k, n) /\ UNCHANGED phase

Spec == Init /\ [][Next]_vars

(* ---- a client that allocates, then frees ---- *)
InitPhase == InitHeap /\ cap = BigWords /\ phase = "alloc"

PhaseMalloc(n) == phase = "alloc" /\ Malloc(n) /\ UNCHANGED phase

PhaseFree(p) == phase \in {"alloc", "free"} /\ Free(p) /\ phase' = "free"

NextPhase ==
    \/ \E n \in PhaseSizes : PhaseMalloc(n)
    \/ \E p \in LivePtrs : PhaseFree(p)

SpecPhase == InitPhase /\ [][NextPhase]_vars

(* ---- reading the heap ---- *)
\* The blocks met by stepping from heap_start by the size in each header,
\* up to the epilogue (a header of size 0 or less ends the walk).
RECURSIVE Chain(_, _)
Chain(s, a) ==
    IF a >= s.epi \/ a \notin Addr \/ bt_size(s, a) <= 0 THEN <<>>
    ELSE <<a>> \o Chain(s, a + bt_size(s, a))

BlocksOf(s) == Chain(s, 0)

BlockSetOf(s) == {BlocksOf(s)[i] : i \in 1 .. Len(BlocksOf(s))}

FreeBlocksOf(s) == {b \in BlockSetOf(s) : bt_used(s, b) = 0}

\* The blocks of a bucket, from the head along the next links.
RECURSIVE ListFrom(_, _, _)
ListFrom(s, bt, fuel) ==
    IF bt = NULL \/ bt < 0 \/ bt \notin Addr \/ fuel = 0 THEN <<>>
    ELSE <<bt>> \o ListFrom(s, get_free_list_next(s, bt), fuel - 1)

BucketOf(s, i) == ListFrom(s, s.seg[i], BigWords)

BucketSetOf(s, i) == {BucketOf(s, i)[j] : j \in 1 .. Len(BucketOf(s, i))}

Blocks == BlocksOf(H)

BlockSet == BlockSetOf(H)

IsFree(b) == bt_used(H, b) = 0

FreeBlocks == FreeBlocksOf(H)

Bucket(i) == BucketOf(H, i)

BucketSet(i) == BucketSetOf(H, i)

Buckets == 0 .. (N_BUCKETS - 1)

(* ---- C1 ---- *)
\* C1: at the exit of every public operation no two address-adjacent blocks
\* are both free.
C1_NoAdjacentFree ==
    ~crashed =>
        \A i \in 1 .. (Len(Blocks) - 1) :
            ~(IsFree(Blocks[i]) /\ IsFree(Blocks[i + 1]))

(* ---- C2 ---- *)
\* C2: every non-null payload address handed out by malloc, realloc or calloc
\* (the one just returned, and every one still live) is 0 modulo 16.
C2_PayloadAligned ==
    /\ ret # NULL => ByteResidue(ret) = 0
    /\ \A e \in live : ByteResidue(e.bt + 1) = 0

\* A payload was just returned from a block that is not the first of the heap,
\* in a heap that also holds a free block.
C2_Witness == ret # NULL /\ ret > 1 /\ FreeBlocks # {}

(* ---- C3 ---- *)
\* The words of a live block: header and payload.
Range(e) == e.bt .. (e.bt + e.w - 1)

\* C3: no call writes a payload word of a block that is live before and after
\* the call, and the ranges (header plus payload) of two live blocks are
\* disjoint.
C3_LiveBlocksUntouched ==
    /\ ~clobber
    /\ \A e \in live : \A f \in live : e # f => Range(e) \cap Range(f) = {}

\* A free just ran while two other blocks stayed live.
C3_Witness ==
    /\ Cardinality(live) >= 2
    /\ ret = NULL
    /\ FreeBlocks # {}
    /\ ~crashed

(* ---- C4 ---- *)
\* The bucket of a size in bytes, as the claim states the ranges.
RECURSIVE Pow2(_)
Pow2(n) == IF n = 0 THEN 1 ELSE 2 * Pow2(n - 1)

ClaimBucket(bytes) ==
    IF bytes = 16 THEN 0
    ELSE IF bytes > 4096 THEN 9
    ELSE CHOOSE i \in 1 .. 8 : Pow2(i + 3) < bytes /\ bytes <= Pow2(i + 4)

\* Block sizes in bytes on which find_bucket is compared with the ranges:
\* both sides of every boundary.
ProbeBytes == {16, 32, 48, 64, 80, 128, 144, 256, 272, 512, 528, 1024, 1040,
               2048, 2064, 4096, 4112, 8192}

NoDuplicates(q) == Cardinality({q[j] : j \in 1 .. Len(q)}) = Len(q)

\* The links of bucket i: the head has no prev, each next block's prev is
\* the block before it, the walk ends on a "none" next link, no block twice.
ListConsistent(i) ==
    LET q == Bucket(i)
    IN  /\ seg[i] = -1 \/ (Len(q) >= 1 /\ q[1] = seg[i])
        /\ NoDuplicates(q)
        /\ Len(q) >= 1 => get_free_list_prev(H, q[1]) = NULL
        /\ Len(q) >= 1 => get_free_list_next(H, q[Len(q)]) = NULL
        /\ \A j \in 1 .. (Len(q) - 1) : get_free_list_prev(H, q[j + 1]) = q[j]

C5_PrevFreeExact ==
    ~crashed =>
        \A i \in 1 .. Len(Blocks) :
            (bt_get_prevfree(H, Blocks[i]) # 0) = (i > 1 /\ IsFree(Blocks[i - 1]))

(* ---- C6 ---- *)
\* C6: the walk from the first block by header sizes meets only blocks of at
\* least 16 bytes and a multiple of 16 bytes, and ends exactly on the epilogue
\* word (size 0, USED), the last word below the break.
C6_ChainCoversHeap ==
    ~crashed =>
        /\ \A b \in BlockSet : bt_size(H, b) * WSIZE >= 16
                               /\ (bt_size(H, b) * WSIZE) % 16 = 0
        /\ IF Blocks = <<>> THEN epi = 0
           ELSE Blocks[Len(Blocks)] + bt_size(H, Blocks[Len(Blocks)]) = epi
        /\ mem[epi] = PACK(0, USED)
        /\ epi = brk - 1

\* The heap was extended and a block was split: a block in use, then a free
\* block of 16 words that ends at the epilogue.
C6_Witness ==
    /\ ~crashed
    /\ Len(Blocks) = 2
    /\ ~IsFree(Blocks[1])
    /\ IsFree(Blocks[2])
    /\ bt_size(H, Blocks[2]) = 16
    /\ ret = Blocks[1] + 1

(* ---- C7 ---- *)
\* Byte counts of the requests the claims about one more call range over.
RequestSizes == (ReqSizes \cup PhaseSizes) \ {0}

\* Block size in words that malloc computes for a request of n bytes.
Words(n) == round_up(WSIZE + n) \div WSIZE

\* The used blocks of a heap, each with its size.
UsedBlocksOf(s) ==
    {<<b, bt_size(s, b)>> : b \in BlockSetOf(s) \ FreeBlocksOf(s)}

\* Same break, same block boundaries, same status of every block, same set
\* of blocks in every bucket.
SameHeap(s, t) ==
    /\ s.brk = t.brk
    /\ BlocksOf(s) = BlocksOf(t)
    /\ FreeBlocksOf(s) = FreeBlocksOf(t)
    /\ \A i \in Buckets : BucketSetOf(s, i) = BucketSetOf(t, i)

C7_RoundTrip(m) == m.ptr # NULL => SameHeap(H, free(m.hp, m.ptr))

C7_Whole(f, words) ==
    ~f.bad /\ f.bt # NULL /\ bt_size(H, f.bt) - words < ALIGNMENT

C7_Splits(f, words) ==
    ~f.bad /\ f.bt # NULL /\ bt_size(H, f.bt) - words >= ALIGNMENT

C7_Restored(t, whole) ==
    /\ t.brk = brk
    /\ UsedBlocksOf(t) = UsedBlocksOf(H)
    /\ whole => SameHeap(H, t)

C7_Reused(m, whole) ==
    (m.ptr # NULL /\ m.hp.brk = brk) =>
        C7_Restored(free(m.hp, m.ptr), whole)

C8_AllFreedOneBlock ==
    (phase = "free" /\ live = {} /\ ~crashed) =>
        /\ Len(Blocks) = 1
        /\ IsFree(Blocks[1])
        /\ Blocks[1] + bt_size(H, Blocks[1]) = epi
        /\ last = Blocks[1]

(* ---- C9 ---- *)
\* Block b of size words was split: a used block of w words, then a free
\* block of the other words, on the list of its bucket.
C9_Split(t, b, size, w) ==
    /\ bt_used(t, b) # 0
    /\ bt_size(t, b) = w
    /\ bt_used(t, b + w) = 0
    /\ bt_size(t, b + w) = size - w
    /\ (b + w) \in BucketSetOf(t, find_bucket(size - w))

C9_TakenWhole(t, b, size) == bt_used(t, b) # 0 /\ bt_size(t, b) = size

C9_Placed(t, b, size, w) ==
    IF size - w >= 4 THEN C9_Split(t, b, size, w) ELSE C9_TakenWhole(t, b, size)

C9_Fit(f, w) ==
    (~f.bad /\ f.bt # NULL) =>
        C9_Placed(place(H, f.bt, w), f.bt, bt_size(H, f.bt), w)

\* C9: place(b, words_needed) on the block find_fit returns splits it exactly
\* when size(b) - words_needed >= 4 words, and takes it whole otherwise.
C9_SplitAtFourWords ==
    ~crashed =>
        \A n \in RequestSizes : C9_Fit(find_fit(H, Words(n)), Words(n))

(* ---- C10 ---- *)
C10_Again(m, n) ==
    m.ptr # NULL => malloc(free(m.hp, m.ptr), n).ptr = m.ptr

\* C10: if p = alloc(n) succeeds, then after free(p) the next alloc(n)
\* returns p again.
C10_SamePointer ==
    ~crashed => \A n \in RequestSizes : C10_Again(malloc(H, n), n)

(* ---- C11 ---- *)
\* malloc(n) finds no fit and mem_sbrk refuses the bytes malloc asks for.
C11_SbrkFails(s, n) ==
    /\ ~find_fit(s, Words(n)).bad
    /\ find_fit(s, Words(n)).bt = NULL
    /\ mem_sbrk_fails(s, malloc_needed(s, round_up(WSIZE + n)))

\* The call returned r: none, with every word and variable of the allocator
\* as before the call, and no word written.
C11_Untouched(r) == r.ptr = NULL /\ r.hp = H

\* C11: when mem_sbrk fails during malloc(n), calloc(k, n) or realloc(p, n)
\* with n > 0, the call returns none and the break, every heap word, every
\* bucket list, last and the epilogue are what they were before the call (so
\* the old block of a realloc stays allocated, contents intact).
C11_SbrkFailureNoChange ==
    ~crashed =>
        /\ \A n \in ReqSizes \ {0} :
              C11_SbrkFails(H, n) => C11_Untouched(malloc(H, n))
        /\ \A p \in LivePtrs \cup {NULL}, n \in ReallocSizes \ {0} :
              C11_SbrkFails(H, n) => C11_Untouched(realloc(H, p, n))
        /\ \A k \in CallocN \ {0}, n \in CallocSize :
              C11_SbrkFails(H, calloc_bytes(k, n)) =>
                  C11_Untouched(calloc(H, k, n))

\* The arena is full while blocks are live: mem_sbrk fails for a malloc, a
\* realloc of a live block and a calloc.
C11_Witness ==
    /\ ~crashed
    /\ live # {}
    /\ \E n \in ReqSizes \ {0} : C11_SbrkFails(H, n)
    /\ \E n \in ReallocSizes \ {0} : C11_SbrkFails(H, n)
    /\ \E k \in CallocN \ {0}, n \in CallocSize :
          C11_SbrkFails(H, calloc_bytes(k, n))

(* ---- C12 ---- *)
\* Largest byte count of the small requests the claims about malloc's sizes
\* try; they also try the requests for which WSIZE + size wraps or nearly
\* wraps.
MaxRequest == 48

ProbeRequests == (1 .. MaxRequest) \cup ((SizeMod - 24) .. (SizeMod - 1))

\* Bytes of the block of payload ptr that follow its header word.
UsableBytes(s, ptr) == bt_size(s, ptr - 1) * WSIZE - WSIZE

C12_Usable(m, n, least) ==
    m.ptr # NULL => UsableBytes(m.hp, m.ptr) >= n /\ UsableBytes(m.hp, m.ptr) >= least

\* C12: when malloc(n) succeeds for n > 0, the block returned holds
\* at least n bytes and at least 16 bytes after its header.
C12_PayloadAtLeast16 ==
    ~crashed => \A n \in ProbeRequests : C12_Usable(malloc(H, n), n, 16)

(* ---- C13 ---- *)
\* The heap after the client stored a value of its own in every payload word
\* of the block of p.
Filled(s, p) ==
    [s EXCEPT !.mem = [a \in Addr |->
                          IF a \in p .. (p + bt_size(s, p - 1) - 2)
                          THEN 1000 + a ELSE s.mem[a]]]

\* Payload words of the smaller of the block of p in s and of q in t.
CommonWords(s, p, t, q) ==
    IF bt_size(t, q - 1) < bt_size(s, p - 1)
    THEN bt_size(t, q - 1) - 1 ELSE bt_size(s, p - 1) - 1

\* Word a lies in a free block of s.
InFreeBlock(s, a) ==
    \E b \in FreeBlocksOf(s) : b <= a /\ a < b + bt_size(s, b)

C13_Moved(s, p, r) ==
    (~r.hp.crashed /\ r.ptr # NULL) =>
        /\ r.ptr # p
        /\ \A i \in 0 .. (CommonWords(s, p, r.hp, r.ptr) - 1) :
              r.hp.mem[r.ptr + i] = s.mem[p + i]
        /\ InFreeBlock(r.hp, p - 1)
        /\ ~InFreeBlock(r.hp, r.ptr - 1)

C13_Realloc(s, p, n) == C13_Moved(s, p, realloc(s, p, n))

\* C13: a successful realloc(p, n) of a live payload p, n > 0, returns a
\* payload q of another block whose first min(old payload, new payload)
\* bytes are the bytes p held before the call, and leaves the block that
\* held p free.
C13_ReallocKeepsContent ==
    ~crashed =>
        \A p \in LivePtrs, n \in RequestSizes : C13_Realloc(Filled(H, p), p, n)

C13_Shrinks(s, p, r) ==
    ~r.hp.crashed /\ r.ptr # NULL /\ bt_size(r.hp, r.ptr - 1) < bt_size(s, p - 1)

C13_Grows(s, p, r) ==
    ~r.hp.crashed /\ r.ptr # NULL /\ bt_size(r.hp, r.ptr - 1) > bt_size(s, p - 1)

\* One live block can be reallocated into a smaller block and one into a
\* larger block.
C13_Witness ==
    /\ ~crashed
    /\ \E p \in LivePtrs, n \in RequestSizes : C13_Shrinks(H, p, realloc(H, p, n))
    /\ \E p \in LivePtrs, n \in RequestSizes : C13_Grows(H, p, realloc(H, p, n))

(* ---- C14 ---- *)
\* The call returned none and left the allocator as it was, no word written.
NoEffect(r) == r = [hp |-> H, ptr |-> NULL]

\* C14: malloc(0) and realloc(NULL, 0) return none and free(NULL) returns,
\* each leaving the allocator's state unchanged; realloc(NULL, n) returns
\* what malloc(n) returns, with the same effect; realloc(p, 0) returns none
\* with the effect of free(p).
C14_NullAndZero ==
    ~crashed =>
        /\ NoEffect(malloc(H, 0))
        /\ free(H, NULL) = H
        /\ NoEffect(realloc(H, NULL, 0))
        /\ \A n \in RequestSizes : realloc(H, NULL, n) = malloc(H, n)
        /\ \A p \in LivePtrs : realloc(H, p, 0) = [hp |-> free(H, p), ptr |-> NULL]

\* Two blocks are live, freeing one of them changes the heap, and a malloc
\* can succeed.
C14_Witness ==
    /\ ~crashed
    /\ Cardinality(live) >= 2
    /\ \E p \in LivePtrs : free(H, p).mem # mem
    /\ \E n \in RequestSizes : malloc(H, n).ptr # NULL

(* ---- C15 ---- *)
\* The product nmemb * size does not fit size_t.
C15_Overflows(k, n) == k * n # calloc_bytes(k, n)

\* C15: calloc(k, n) returns none, without allocating or writing any memory,
\* whenever k * n overflows size_t.
C15_CallocGuardsOverflow ==
    ~crashed =>
        \A k \in CallocN, n \in CallocSize :
            C15_Overflows(k, n) => NoEffect(calloc(H, k, n))

(* ---- C16 ---- *)
\* C16: at the exit of every public operation last is none when the heap
\* holds no block, and otherwise is the highest block, the one whose last
\* word is right before the epilogue.
C16_LastIsHighestBlock ==
    ~crashed =>
        IF Blocks = <<>> THEN last = NULL
        ELSE /\ last = Blocks[Len(Blocks)]
             /\ bt_footer(H, last) + 1 = epi

\* The highest block is a free block that follows a block in use: the
\* leftover of a split, or a freed block.
C16_Witness ==
    /\ ~crashed
    /\ Len(Blocks) >= 2
    /\ IsFree(last)
    /\ ~IsFree(Blocks[Len(Blocks) - 1])
    /\ last # 0

(* ---- C17 ---- *)
\* C17: for every residue r mod 16 of the break that mm_init can observe
\* after the bucket table is reserved, the padding p it requests satisfies
\* 0 <= p < 16 and (r + p) mod 16 = 12.
C17_PaddingAlignsHeader ==
    ~crashed =>
        \A r \in 0 .. 15 :
            /\ 0 <= mm_init_size(r)
            /\ mm_init_size(r) < 16
            /\ (r + mm_init_size(r)) % 16 = 12

(* ---- C18 ---- *)
\* Positions on the list of bucket i of the blocks of w words or more.
FitsIn(w, i) == {j \in 1 .. Len(Bucket(i)) : bt_size(H, Bucket(i)[j]) >= w}

FirstOf(q, fits) == q[CHOOSE j \in fits : \A k \in fits : j <= k]

\* The first block of w words or more met from bucket i upward, each list
\* from head to tail; NULL when there is none.
RECURSIVE FirstFitFrom(_, _)
FirstFitFrom(w, i) ==
    IF i >= N_BUCKETS THEN NULL
    ELSE IF FitsIn(w, i) # {} THEN FirstOf(Bucket(i), FitsIn(w, i))
    ELSE FirstFitFrom(w, i + 1)

SomeFreeFits(w) == \E b \in FreeBlocks : bt_size(H, b) >= w

C18_Found(f, w) ==
    /\ (~f.bad /\ f.bt = NULL) => ~SomeFreeFits(w)
    /\ SomeFreeFits(w) =>
          ~f.bad /\ f.bt = FirstFitFrom(w, ClaimBucket(w * WSIZE))

C18_Extends(m, w) == m.hp.brk # brk => ~SomeFreeFits(w)

\* C18: find_fit(w) returns none only if no free block has w words or more;
\* otherwise it returns the first such block met scanning the buckets upward
\* from the bucket of w and each list from head to tail; so malloc extends
\* the heap only when no free block is large enough.
C18_FirstFit ==
    ~crashed =>
        \A n \in RequestSizes :
            /\ C18_Found(find_fit(H, Words(n)), Words(n))
            /\ C18_Extends(malloc(H, n), Words(n))

\* A bucket holds two blocks that both fit a request, and another request
\* fits no free block.
C18_Witness ==
    /\ ~crashed
    /\ \E n \in RequestSizes, i \in Buckets : Cardinality(FitsIn(Words(n), i)) >= 2
    /\ \E n \in RequestSizes : ~SomeFreeFits(Words(n))

(* ---- C19 ---- *)
\* R of the claim: n + 4 rounded up to a multiple of 16, as a number.
RoundedBytes(n) == 16 * ((n + 4 + 15) \div 16)

LastIsFree == last # NULL /\ bt_used(H, last) = 0

\* Bytes the break must grow by for a block of R bytes.
GrowthBytes(n) ==
    IF LastIsFree THEN RoundedBytes(n) - bt_size(H, last) * WSIZE
    ELSE RoundedBytes(n)

\* malloc(n) found no fit and the heap was extended: m is what it returned.
C19_Missed(m, f) == ~f.bad /\ f.bt = NULL /\ m.ptr # NULL

C19_Grown(m, n) ==
    /\ ~m.hp.crashed
    /\ (m.hp.brk - brk) * WSIZE = GrowthBytes(n)
    /\ GrowthBytes(n) >= 16
    /\ m.ptr - 1 = (IF LastIsFree THEN last ELSE epi)
    /\ bt_used(m.hp, m.ptr - 1) = 1
    /\ bt_size(m.hp, m.ptr - 1) * WSIZE = RoundedBytes(n)
    /\ m.hp.last = m.ptr - 1
    /\ bt_footer(m.hp, m.ptr - 1) + 1 = m.hp.epi
    /\ m.hp.epi = m.hp.brk - 1

C19_Extension(m, f, n) == C19_Missed(m, f) => C19_Grown(m, n)

\* C19: when malloc(n) finds no fit and extends the heap, the break grows by
\* R = round-up-16(n + 4) bytes if last is none or used and by R minus the
\* size of last if last is free, never by less than 16; the block returned
\* starts where the free last started, has size R and is the highest block.
C19_ExtendsByNeeded ==
    ~crashed =>
        \A n \in RequestSizes \cup ProbeRequests :
            C19_Extension(malloc(H, n), find_fit(H, Words(n)), n)

\* The same property over the requests whose rounded size fits size_t.
C19_ExtendsByNeededSmall ==
    ~crashed =>
        \A n \in RequestSizes \cup (1 .. MaxRequest) :
            C19_Extension(malloc(H, n), find_fit(H, Words(n)), n)

(* ---- C20 ---- *)
\* C20: in every reachable state, a find_fit call for any request size reads
\* segregated_list only at the indices 0 .. N_BUCKETS - 1.
C20_TableReadInBounds ==
    ~crashed =>
        \A n \in RequestSizes : find_fit(H, Words(n)).top <= N_BUCKETS - 1

====
